---------------------------- MODULE Spec2Model ----------------------------
(***************************************************************************)
(* carbon-cli: the command mailbox (state.rs), the sourcemap builder       *)
(* (sourcemap.rs) and the HTTP handlers and CLI commands (main.rs).        *)
(*                                                                         *)
(* Strings are TLA+ strings; Option<T> is a sequence of length 0 (None) or *)
(* 1 (Some(v)).  The filesystem is the set of directories `dirs` and the   *)
(* function `files` from file paths to contents, both keyed by absolute    *)
(* path strings below the working directory Cwd.                           *)
(***************************************************************************)
EXTENDS Integers, Sequences, FiniteSets, TLC

VARIABLES
    dirs,             \* filesystem: the paths that are directories
    files,            \* filesystem: file path -> content
    stdout,           \* `carbon sourcemap`: Option of the printed JSON
    walks,            \* ghost: the walk_directory calls of the last `carbon sourcemap`
    fresh,            \* ghost: the filesystem is as the last `carbon sourcemap` saw it
    su_pc,            \* sync_update: "idle" | "entry" | "regen" | "done"
    su_payload,       \* sync_update: the JSON payload of the call in flight
    su_idx,           \* sync_update: index of the entry the for loop is at
    su_cwd,           \* sync_update: Option of the result of current_dir()
    log,              \* tracing records emitted by the sync_update call in flight
    response,         \* sync_update: Option of the JSON response
    pending_command,  \* AppState: the Option<SyncCommand> inside the mutex
    mutex,            \* AppState: Option of the request holding the mutex guard
    rpc,              \* per request: where its handler is
    rarg,             \* per request: Option of the command set_command was given
    rgot,             \* per request: Option of the value pop_command returns
    tickets,          \* ghost: how many commands have been submitted
    history           \* ghost: the calls, in the order they released the mutex

fsvars == <<dirs, files>>
mapvars == <<stdout, walks, fresh>>
suvars == <<su_pc, su_payload, su_idx, su_cwd, log, response>>
mbvars == <<pending_command, mutex, rpc, rarg, rgot, tickets, history>>
vars == <<dirs, files, stdout, walks, fresh, su_pc, su_payload, su_idx, su_cwd, log, response,
          pending_command, mutex, rpc, rarg, rgot, tickets, history>>

None == <<>>
Some(v) == <<v>>

-----------------------------------------------------------------------------
(* str and Path operations of the Rust standard library                    *)

\* str::starts_with
StartsWith(s, p) == Len(s) >= Len(p) /\ SubSeq(s, 1, Len(p)) = p

\* str::ends_with
EndsWith(s, p) == Len(s) >= Len(p) /\ SubSeq(s, Len(s) - Len(p) + 1, Len(s)) = p

\* str::contains
Contains(s, p) == \E i \in 1..(Len(s) - Len(p) + 1) : SubSeq(s, i, i + Len(p) - 1) = p

\* str::strip_suffix: Some(the string without the suffix), or None
StripSuffix(s, p) == IF EndsWith(s, p) THEN Some(SubSeq(s, 1, Len(s) - Len(p))) ELSE None

\* positions of the path separator in a path string
Slashes(p) == {i \in 1..Len(p) : SubSeq(p, i, i) = "/"}

RECURSIVE SlashBefore(_, _)
\* the position of the last separator at or before position i, or 0
SlashBefore(p, i) ==
    IF i = 0 THEN 0
    ELSE IF SubSeq(p, i, i) = "/" THEN i
    ELSE SlashBefore(p, i - 1)

LastSlash(p) == SlashBefore(p, Len(p))

\* Path::join, for a relative right-hand side
Join(d, n) == d \o "/" \o n

\* Path::parent, for paths without trailing or doubled separators
Parent(p) ==
    IF p = "" \/ p = "/" THEN None
    ELSE IF LastSlash(p) = 0 THEN Some("")
    ELSE IF LastSlash(p) = 1 THEN Some("/")
    ELSE Some(SubSeq(p, 1, LastSlash(p) - 1))

\* Path::file_name of such a path
FileName(p) == SubSeq(p, LastSlash(p) + 1, Len(p))

\* the process's working directory
Cwd == "/w"

\* a relative path as the OS resolves it against the working directory
Resolve(p) == IF p = "" THEN Cwd ELSE IF StartsWith(p, "/") THEN p ELSE Join(Cwd, p)

-----------------------------------------------------------------------------
(* The filesystem calls                                                    *)

\* Path::exists, Path::is_dir, Path::is_file
Exists(p) == p \in dirs \/ p \in DOMAIN files
IsDir(p) == p \in dirs
IsFile(p) == p \in DOMAIN files

\* the path and every ancestor of it below the root directory
Ancestors(p) == {SubSeq(p, 1, i - 1) : i \in {j \in Slashes(p) : j > 1}} \cup {p}

\* std::fs::create_dir_all(p): fails, creating nothing, when p or an ancestor
\* is a regular file; the empty path is Ok(()) at once
CreateDirAllOk(p) == p = "" \/ \A a \in Ancestors(Resolve(p)) : ~IsFile(a)

CreateDirAll(p) == IF p = "" THEN dirs ELSE dirs \cup Ancestors(Resolve(p))

\* std::fs::write(p, c) on the directories ds: fails on the empty path, on a
\* directory, and when the parent is not a directory
WriteOk(ds, p) ==
    /\ p # ""
    /\ Resolve(p) \notin ds
    /\ Parent(Resolve(p)) # None
    /\ Parent(Resolve(p))[1] \in ds

WriteFile(fs, p, c) == [q \in DOMAIN fs \cup {p} |-> IF q = p THEN c ELSE fs[q]]

Range(q) == {q[i] : i \in DOMAIN q}

RECURSIVE SetToSeq(_)
SetToSeq(S) == IF S = {} THEN <<>>
               ELSE LET x == CHOOSE y \in S : TRUE IN <<x>> \o SetToSeq(S \ {x})

\* std::fs::read_dir(d): the names of the entries of d, in the order the
\* OS yields them (some fixed order)
ReadDir(d) ==
    SetToSeq({FileName(p) : p \in {q \in dirs \cup DOMAIN files :
                                      q # "/" /\ Parent(q) = Some(d)}})

-----------------------------------------------------------------------------
(* sourcemap.rs                                                            *)

\* SourcemapNode::new
SourcemapNode(name, class_name) ==
    [name |-> name, class_name |-> class_name, file_paths |-> None, children |-> <<>>]

\* mutant of root_node: the root classified as a plain folder
root_node_mut == SourcemapNode("Project", "Folder")

\* the root node generate_sourcemap starts from
root_node == SourcemapNode("Project", "DataModel")

\* the match of generate_sourcemap: top-level directory name -> service class
Services ==
    {"ServerScriptService", "ReplicatedStorage", "StarterPlayer", "StarterGui",
     "ReplicatedFirst", "SoundService", "Chat", "Lighting", "MaterialService",
     "HttpService", "Workspace"}

service_class(dir_name) == IF dir_name \in Services THEN dir_name ELSE "Folder"

\* mutant of parse_script_name: the plain .luau suffix is tried first
parse_script_name_mut(filename) ==
    IF StripSuffix(filename, ".luau") # None
        THEN <<StripSuffix(filename, ".luau")[1], "ModuleScript">>
    ELSE <<filename, "Folder">>

\* parse_script_name: <<name, class>>
parse_script_name(filename) ==
    IF StripSuffix(filename, ".server.luau") # None
        THEN <<StripSuffix(filename, ".server.luau")[1], "Script">>
    ELSE IF StripSuffix(filename, ".client.luau") # None
        THEN <<StripSuffix(filename, ".client.luau")[1], "LocalScript">>
    ELSE IF StripSuffix(filename, ".luau") # None
        THEN <<StripSuffix(filename, ".luau")[1], "ModuleScript">>
    ELSE <<filename, "Folder">>

\* mutant of init_script: the class is upgraded whatever class was passed in
init_script_mut(node, dir_path, class_name) ==
    LET init_server == Join(dir_path, "init.server.luau")
        init_client == Join(dir_path, "init.client.luau")
        init_module == Join(dir_path, "init.luau")
        upgrade(p, c) == [node EXCEPT !.file_paths = Some(<<p>>), !.class_name = c]
    IN  IF Exists(init_server) THEN upgrade(init_server, "Script")
        ELSE IF Exists(init_client) THEN upgrade(init_client, "LocalScript")
        ELSE IF Exists(init_module) THEN upgrade(init_module, "ModuleScript")
        ELSE node

\* walk_directory, the init-script check: the node with its file_paths and
\* class_name resolved
init_script(node, dir_path, class_name) ==
    LET init_server == Join(dir_path, "init.server.luau")
        init_client == Join(dir_path, "init.client.luau")
        init_module == Join(dir_path, "init.luau")
        upgrade(p, c) ==
            [node EXCEPT !.file_paths = Some(<<p>>),
                         !.class_name = IF class_name = "Folder" THEN c ELSE @]
    IN  IF Exists(init_server) THEN upgrade(init_server, "Script")
        ELSE IF Exists(init_client) THEN upgrade(init_client, "LocalScript")
        ELSE IF Exists(init_module) THEN upgrade(init_module, "ModuleScript")
        ELSE node

\* mutant of child_class: the parent's name is not looked at
child_class_mut(name, file_name) ==
    IF file_name = "StarterPlayerScripts" THEN "StarterPlayerScripts"
    ELSE IF file_name = "StarterCharacterScripts" THEN "StarterCharacterScripts"
    ELSE "Folder"

\* walk_directory, the class a sub-directory is walked with
child_class(name, file_name) ==
    IF name = "StarterPlayer" /\ file_name = "StarterPlayerScripts"
        THEN "StarterPlayerScripts"
    ELSE IF name = "StarterPlayer" /\ file_name = "StarterCharacterScripts"
        THEN "StarterCharacterScripts"
    ELSE "Folder"

\* walk_directory, the branch of a regular file: the children it pushes
file_child(path, file_name) ==
    IF StartsWith(file_name, "init.") THEN <<>>
    ELSE IF EndsWith(file_name, ".luau")
        THEN LET parsed == parse_script_name(file_name)
             IN  <<[SourcemapNode(parsed[1], parsed[2]) EXCEPT !.file_paths = Some(<<path>>)]>>
    ELSE <<>>

RECURSIVE walk_directory(_, _, _)
RECURSIVE walk_entries(_, _, _)

\* walk_directory, the loop over read_dir: the children pushed for `entries`
walk_entries(dir_path, name, entries) ==
    IF entries = <<>> THEN <<>>
    ELSE LET file_name == Head(entries)
             path == Join(dir_path, file_name)
             pushed == IF IsDir(path)
                           THEN walk_directory(path, file_name, child_class(name, file_name))
                       ELSE IF IsFile(path) THEN file_child(path, file_name)
                       ELSE <<>>
         IN  pushed \o walk_entries(dir_path, name, Tail(entries))

\* walk_directory: Option<SourcemapNode>
walk_directory(dir_path, name, class_name) ==
    IF ~Exists(dir_path) \/ ~IsDir(dir_path) THEN None
    ELSE Some([init_script(SourcemapNode(name, class_name), dir_path, class_name)
                  EXCEPT !.children = walk_entries(dir_path, name, ReadDir(dir_path))])

RECURSIVE service_entries(_, _)
\* generate_sourcemap, the loop over the entries of game/
service_entries(game_path, entries) ==
    IF entries = <<>> THEN <<>>
    ELSE LET dir_name == Head(entries)
             path == Join(game_path, dir_name)
             pushed == IF IsDir(path)
                           THEN walk_directory(path, dir_name, service_class(dir_name))
                       ELSE <<>>
         IN  pushed \o service_entries(game_path, Tail(entries))

\* generate_sourcemap, the tree before it is serialised
sourcemap_tree(root_path) ==
    LET game_path == Join(root_path, "game")
    IN  IF Exists(game_path) /\ IsDir(game_path)
            THEN [root_node EXCEPT !.children = service_entries(game_path, ReadDir(game_path))]
        ELSE root_node

RECURSIVE Serialize(_)
RECURSIVE SerializeAll(_)
\* #[derive(Serialize)] of SourcemapNode: camelCase keys, file_paths skipped
\* when None, children skipped when empty
Serialize(node) ==
    [name |-> node.name, className |-> node.class_name]
    @@ (IF node.file_paths = None THEN <<>> ELSE [filePaths |-> node.file_paths[1]])
    @@ (IF node.children = <<>> THEN <<>> ELSE [children |-> SerializeAll(node.children)])

SerializeAll(nodes) ==
    IF nodes = <<>> THEN <<>> ELSE <<Serialize(Head(nodes))>> \o SerializeAll(Tail(nodes))

\* generate_sourcemap: the JSON document (paths are valid UTF-8, so
\* to_string_pretty never fails)
generate_sourcemap(root_path) == Serialize(sourcemap_tree(root_path))

RECURSIVE walk_calls(_, _, _)
\* ghost: the calls of walk_directory one walk makes, each with the
\* arguments it was given and the node it returned
walk_calls(dir_path, name, class_name) ==
    {[dir_path |-> dir_path, name |-> name, class_name |-> class_name,
      result |-> walk_directory(dir_path, name, class_name)]}
    \cup UNION {walk_calls(Join(dir_path, f), f, child_class(name, f)) :
                   f \in {g \in Range(ReadDir(dir_path)) : IsDir(Join(dir_path, g))}}

\* ghost: the calls of walk_directory one generate_sourcemap makes
sourcemap_calls(root_path) ==
    LET game_path == Join(root_path, "game")
    IN  IF Exists(game_path) /\ IsDir(game_path)
            THEN UNION {walk_calls(Join(game_path, d), d, service_class(d)) :
                           d \in {g \in Range(ReadDir(game_path)) : IsDir(Join(game_path, g))}}
        ELSE {}

-----------------------------------------------------------------------------
(* state.rs: AppState, and its handlers poll_command and receive_command   *)

\* bound: requests the server handles at the same time
NumRequests == 2

\* bound: set_command and pop_command calls in one run
MaxOps == 4

Requests == 1..NumRequests

SyncCommand == {"Import", "Export", "Sourcemap"}

\* #[serde(rename_all = "lowercase")]: the wire token of a command
ToWire(command) ==
    CASE command = "Import" -> "import"
      [] command = "Export" -> "export"
      [] command = "Sourcemap" -> "sourcemap"

\* Json<SyncCommand>: the command of a wire token
FromWire(token) == CHOOSE command \in SyncCommand : ToWire(command) = token

WireTokens == {ToWire(command) : command \in SyncCommand}

\* a submitted command: the SyncCommand, tagged (ghost) with the number of
\* the submission that carried it
Submitted(command, ticket) == [cmd |-> command, ticket |-> ticket]

\* mutant of lock_granted: the guard is handed out while another holds it
lock_granted_mut(r) == TRUE

\* Mutex::lock: the guard is granted when no request holds it (the mutex
\* is never poisoned: nothing panics while holding it)
lock_granted(r) == mutex = None

\* mutant of stored: a pending command is not overwritten
stored_mut(slot, command) == IF slot = None THEN Some(command) ELSE slot

\* set_command: what `*lock = Some(command)` leaves in the slot
stored(slot, command) == Some(command)

\* mutant of taken: take() leaves the value in place
taken_mut(slot) == slot

\* pop_command: what `lock.take()` leaves in the slot
taken(slot) == None

\* the calls started so far
Started == Len(history) + Cardinality({r \in Requests : rpc[r] # "idle"})

\* POST /command arrives with a wire token; receive_command calls set_command
ReceiveCommand(r, token) ==
    /\ rpc[r] = "idle"
    /\ Started < MaxOps
    /\ rarg' = [rarg EXCEPT ![r] = Some(Submitted(FromWire(token), tickets + 1))]
    /\ tickets' = tickets + 1
    /\ rpc' = [rpc EXCEPT ![r] = "set_lock"]
    /\ UNCHANGED <<pending_command, mutex, rgot, history, fsvars, mapvars, suvars>>

\* GET /poll arrives; poll_command calls pop_command
PollCommand(r) ==
    /\ rpc[r] = "idle"
    /\ Started < MaxOps
    /\ rpc' = [rpc EXCEPT ![r] = "pop_lock"]
    /\ UNCHANGED <<pending_command, mutex, rarg, rgot, tickets, history, fsvars, mapvars, suvars>>

\* set_command and pop_command: self.pending_command.lock()
Lock(r) ==
    /\ rpc[r] \in {"set_lock", "pop_lock"}
    /\ lock_granted(r)
    /\ mutex' = Some(r)
    /\ rpc' = [rpc EXCEPT ![r] = IF rpc[r] = "set_lock" THEN "set_store" ELSE "pop_read"]
    /\ UNCHANGED <<pending_command, rarg, rgot, tickets, history, fsvars, mapvars, suvars>>

\* set_command: *lock = Some(command)
SetStore(r) ==
    /\ rpc[r] = "set_store"
    /\ pending_command' = stored(pending_command, rarg[r][1])
    /\ rpc' = [rpc EXCEPT ![r] = "unlock"]
    /\ UNCHANGED <<mutex, rarg, rgot, tickets, history, fsvars, mapvars, suvars>>

\* pop_command: lock.take(), the read of the value it returns
PopRead(r) ==
    /\ rpc[r] = "pop_read"
    /\ rgot' = [rgot EXCEPT ![r] = pending_command]
    /\ rpc' = [rpc EXCEPT ![r] = "pop_clear"]
    /\ UNCHANGED <<pending_command, mutex, rarg, tickets, history, fsvars, mapvars, suvars>>

\* pop_command: lock.take(), the None it leaves behind
PopClear(r) ==
    /\ rpc[r] = "pop_clear"
    /\ pending_command' = taken(pending_command)
    /\ rpc' = [rpc EXCEPT ![r] = "unlock"]
    /\ UNCHANGED <<mutex, rarg, rgot, tickets, history, fsvars, mapvars, suvars>>

\* the call, as the history records it
Call(r) ==
    IF rarg[r] # None THEN [op |-> "set", val |-> rarg[r]]
    ELSE [op |-> "pop", val |-> rgot[r]]

\* the guard is dropped, set_command or pop_command returns and the handler
\* responds
Unlock(r) ==
    /\ rpc[r] = "unlock"
    /\ mutex' = IF mutex = Some(r) THEN None ELSE mutex
    /\ history' = Append(history, Call(r))
    /\ rarg' = [rarg EXCEPT ![r] = None]
    /\ rgot' = [rgot EXCEPT ![r] = None]
    /\ rpc' = [rpc EXCEPT ![r] = "idle"]
    /\ UNCHANGED <<pending_command, tickets, fsvars, mapvars, suvars>>

\* AppState::new, before any request
MailboxIdle ==
    /\ pending_command = None
    /\ mutex = None
    /\ rpc = [r \in Requests |-> "idle"]
    /\ rarg = [r \in Requests |-> None]
    /\ rgot = [r \in Requests |-> None]
    /\ tickets = 0
    /\ history = <<>>

-----------------------------------------------------------------------------
(* The project tree on disk and the `carbon sourcemap` command             *)

\* bound: entries (directories and files, Cwd included) the project tree holds
MaxFsEntries == 6

\* files the developer may create, relative to the working directory
ProjectFiles ==
    {"game",
     "game/top.luau",
     "game/ServerScriptService/init.server.luau",
     "game/ServerScriptService/init.luau",
     "game/ReplicatedStorage/Utils.luau",
     "game/MyFolder/init.server.luau",
     "game/MyFolder/init.client.luau",
     "game/MyFolder/init.luau",
     "game/MyFolder/init.module.txt",
     "game/MyFolder/init.extra.luau",
     "game/MyFolder/a.server.luau",
     "game/MyFolder/b.client.luau",
     "game/MyFolder/notes.txt"}

\* directories the developer may create, relative to the working directory
ProjectDirs ==
    {"game",
     "game/StarterPlayer/StarterPlayerScripts",
     "game/StarterPlayer/StarterCharacterScripts",
     "game/MyFolder/StarterPlayerScripts",
     "game/MyFolder/StarterPlayer/StarterCharacterScripts",
     "game/MyFolder/init.luau"}

\* a file content: plain text, or a JSON document
Text(c) == <<"text", c>>
Json(j) == <<"json", j>>

\* the developer saves a file of the project
EnvCreateFile(p) ==
    /\ CreateDirAllOk(Parent(p)[1])
    /\ WriteOk(CreateDirAll(Parent(p)[1]), p)
    /\ ~IsFile(Resolve(p))
    /\ dirs' = CreateDirAll(Parent(p)[1])
    /\ files' = WriteFile(files, Resolve(p), Text(""))
    /\ Cardinality(dirs' \cup DOMAIN files') <= MaxFsEntries
    /\ fresh' = FALSE
    /\ UNCHANGED <<stdout, walks, suvars, mbvars>>

\* the developer creates a directory of the project
EnvCreateDir(p) ==
    /\ CreateDirAllOk(p)
    /\ ~IsDir(Resolve(p))
    /\ dirs' = CreateDirAll(p)
    /\ Cardinality(dirs' \cup DOMAIN files) <= MaxFsEntries
    /\ fresh' = FALSE
    /\ UNCHANGED <<files, stdout, walks, suvars, mbvars>>

\* main, Commands::Sourcemap: print generate_sourcemap(current_dir()?);
\* when current_dir() fails main returns the error and prints nothing
CmdSourcemap(cwd) ==
    /\ stdout' = IF cwd = None THEN None ELSE Some(generate_sourcemap(cwd[1]))
    /\ walks' = IF cwd = None THEN {} ELSE sourcemap_calls(cwd[1])
    /\ fresh' = (cwd # None)
    /\ UNCHANGED <<fsvars, suvars, mbvars>>

\* std::env::current_dir(): an error, or the working directory
CurrentDir == {None, Some(Cwd)}

FsInit ==
    /\ dirs = {Cwd}
    /\ files = <<>>

SuIdle ==
    /\ su_pc = "idle"
    /\ su_payload = <<>>
    /\ su_idx = 0
    /\ su_cwd = None
    /\ log = <<>>
    /\ response = None

MapIdle ==
    /\ stdout = None
    /\ walks = {}
    /\ fresh = FALSE

\* the server and the command line before any request or command, in an
\* empty working directory
Init ==
    /\ MailboxIdle
    /\ FsInit
    /\ SuIdle
    /\ MapIdle

MapNext ==
    \/ \E p \in ProjectFiles : EnvCreateFile(p)
    \/ \E p \in ProjectDirs : EnvCreateDir(p)
    \/ \E cwd \in CurrentDir : CmdSourcemap(cwd)

\* the sourcemap builder run on project trees the developer builds up
SpecMap == Init /\ [][MapNext]_vars

-----------------------------------------------------------------------------
(* main.rs: sync_update, the handler of POST /sync/update                  *)

\* bound: entries of the "files" array of a payload
MaxBatch == 2

\* the file entries a payload may carry: {"path": .., "content": ..}, a key
\* being None when it is missing or not a string
FileEntries ==
    {[path |-> Some("game/A/init.luau"), content |-> Some("c1")],
     [path |-> Some("game/A/init.luau"), content |-> Some("c2")],
     [path |-> Some("game"), content |-> Some("c1")],
     [path |-> Some("../x"), content |-> Some("c1")],
     [path |-> Some("game/../y"), content |-> Some("c2")],
     [path |-> Some("a..b"), content |-> Some("c1")],
     [path |-> Some("sourcemap.json/x"), content |-> Some("c1")],
     [path |-> Some("m.luau"), content |-> None]}

Batches == UNION {[1..n -> FileEntries] : n \in 0..MaxBatch}

\* the payloads: "files" is None when the key is missing or not an array
Payloads == {[files |-> None]} \cup {[files |-> Some(b)] : b \in Batches}

\* a tracing record
Record(level, msg, path) == [level |-> level, msg |-> msg, path |-> path]

\* mutant of unsafe_path: only a leading .. is rejected
unsafe_path_mut(path_str) == StartsWith(path_str, "..")

\* sync_update, the safety check of a path
unsafe_path(path_str) == Contains(path_str, "..")

\* sync_update, the body of the for loop for one entry: the directories and
\* files it leaves and the records it logs
sync_entry(file) ==
    LET same(records) == [dirs |-> dirs, files |-> files, log |-> records]
    IN  IF file.path = None \/ file.content = None THEN same(<<>>)
        ELSE LET path_str == file.path[1]
                 content == file.content[1]
                 parent == Parent(path_str)
                 made == IF parent = None THEN dirs ELSE CreateDirAll(parent[1])
             IN  IF unsafe_path(path_str)
                     THEN same(<<Record("error", "Skipping unsafe path", path_str)>>)
                 ELSE IF parent # None /\ ~CreateDirAllOk(parent[1])
                     THEN same(<<Record("error", "Failed to create directory", parent[1])>>)
                 ELSE IF ~WriteOk(made, path_str)
                     THEN [dirs |-> made, files |-> files,
                           log |-> <<Record("error", "Failed to write file", path_str)>>]
                 ELSE [dirs |-> made,
                       files |-> WriteFile(files, Resolve(path_str), Text(content)),
                       log |-> <<Record("info", "Imported", path_str)>>]

\* mutant of sync_regen: no sourcemap after a batch in which an entry failed
sync_regen_mut(cwd) ==
    IF cwd = None \/ \E i \in DOMAIN log : log[i].level = "error"
        THEN [files |-> files, log |-> <<>>]
    ELSE [files |-> WriteFile(files, Resolve("sourcemap.json"),
                              Json(generate_sourcemap(cwd[1]))),
          log |-> <<Record("info", "Generated sourcemap.json", "")>>]

\* sync_update, the sourcemap regeneration after the loop: the files it
\* leaves and the records it logs
sync_regen(cwd) ==
    IF cwd = None THEN [files |-> files, log |-> <<>>]
    ELSE IF ~WriteOk(dirs, "sourcemap.json")
        THEN [files |-> files,
              log |-> <<Record("error", "Failed to write sourcemap.json", "")>>]
    ELSE [files |-> WriteFile(files, Resolve("sourcemap.json"),
                              Json(generate_sourcemap(cwd[1]))),
          log |-> <<Record("info", "Generated sourcemap.json", "")>>]

\* the request arrives: the payload is looked up for its "files" array
SyncUpdateCall(payload) ==
    /\ su_pc = "idle"
    /\ su_payload' = payload
    /\ su_idx' = 1
    /\ su_cwd' = None
    /\ log' = <<Record("info", "Received sync update from Roblox", "")>>
    /\ response' = None
    /\ su_pc' = IF payload.files = None THEN "respond"
                ELSE IF payload.files[1] = <<>> THEN "regen"
                ELSE "entry"
    /\ UNCHANGED <<fsvars, mapvars, mbvars>>

\* one iteration of the for loop
SyncUpdateEntry ==
    /\ su_pc = "entry"
    /\ LET done == sync_entry(su_payload.files[1][su_idx])
       IN  /\ dirs' = done.dirs
           /\ files' = done.files
           /\ log' = log \o done.log
    /\ su_idx' = su_idx + 1
    /\ su_pc' = IF su_idx < Len(su_payload.files[1]) THEN "entry" ELSE "regen"
    /\ fresh' = (fresh /\ dirs' = dirs /\ files' = files)
    /\ UNCHANGED <<su_payload, su_cwd, response, stdout, walks, mbvars>>

\* after the loop: current_dir(), generate_sourcemap, write sourcemap.json
SyncUpdateRegen(cwd) ==
    /\ su_pc = "regen"
    /\ su_cwd' = cwd
    /\ LET done == sync_regen(cwd)
       IN  /\ files' = done.files
           /\ log' = log \o done.log
    /\ su_pc' = "respond"
    /\ fresh' = (fresh /\ files' = files)
    /\ UNCHANGED <<dirs, su_payload, su_idx, response, stdout, walks, mbvars>>

\* the handler returns { "success": true }; its locals are dropped
SyncUpdateRespond ==
    /\ su_pc = "respond"
    /\ response' = Some([success |-> TRUE])
    /\ su_pc' = "idle"
    /\ su_payload' = <<>>
    /\ su_idx' = 0
    /\ su_cwd' = None
    /\ log' = <<>>
    /\ UNCHANGED <<fsvars, mapvars, mbvars>>

IngestNext ==
    \/ \E payload \in Payloads : SyncUpdateCall(payload)
    \/ SyncUpdateEntry
    \/ \E cwd \in CurrentDir : SyncUpdateRegen(cwd)
    \/ SyncUpdateRespond

\* the server handling sync_update requests one after the other
SpecIngest == Init /\ [][IngestNext]_vars

MailboxNext ==
    \/ \E r \in Requests, token \in WireTokens : ReceiveCommand(r, token)
    \/ \E r \in Requests : PollCommand(r)
    \/ \E r \in Requests : Lock(r)
    \/ \E r \in Requests : SetStore(r)
    \/ \E r \in Requests : PopRead(r)
    \/ \E r \in Requests : PopClear(r)
    \/ \E r \in Requests : Unlock(r)

\* the server handling /command and /poll requests concurrently
SpecMailbox == Init /\ [][MailboxNext]_vars

Next == MailboxNext \/ IngestNext \/ MapNext

\* the whole program: requests, commands and the developer's edits interleaved
Spec == Init /\ [][Next]_vars

-----------------------------------------------------------------------------
(* Claims about the command mailbox                                        *)

Sets == {i \in DOMAIN history : history[i].op = "set"}
Pops == {i \in DOMAIN history : history[i].op = "pop"}

\* the command a history entry carries, tag dropped: Option<SyncCommand>
Cmd(i) == IF history[i].val = None THEN None ELSE Some(history[i].val[1].cmd)

\* the requests inside set_command or pop_command with the guard taken
InCritical == {r \in Requests : rpc[r] \in {"set_store", "pop_read", "pop_clear", "unlock"}}

\* C1: set_command(C) directly followed by pop_command() returns C and
\* leaves the slot empty, so that the next pop_command() returns empty;
\* pop_command() on an empty slot returns empty and leaves it empty
C1_SetThenPop ==
    /\ \A i \in Pops :
           /\ (i - 1) \in Sets => Cmd(i) = Cmd(i - 1)
           /\ (i - 1) \in Pops => Cmd(i) = None
           /\ i = 1 => Cmd(i) = None
    /\ (InCritical = {} /\ history # <<>>) =>
           pending_command = IF Len(history) \in Pops THEN None
                             ELSE history[Len(history)].val

\* set_command, pop_command, pop_command ran in this order
C1_Witness ==
    \E i \in Sets : (i + 1) \in Pops /\ (i + 2) \in Pops

\* C2: after set_command(C1); set_command(C2) with no pop_command between
\* them, the next pop_command() returns C2, and that submission of C1 is
\* returned by no pop_command at all
C2_LastWriteWins ==
    \A i \in Sets :
        (i + 1) \in Sets =>
            /\ (i + 2) \in Pops => history[i + 2].val = history[i + 1].val
            /\ \A j \in Pops : history[j].val # history[i].val

\* set_command, set_command, pop_command ran in this order with two
\* different commands
C2_Witness ==
    \E i \in Sets : (i + 1) \in Sets /\ (i + 2) \in Pops /\ Cmd(i) # Cmd(i + 1)

\* C3: set_command and pop_command exclude each other, one submitted command
\* is returned by at most one pop_command, and every value a pop_command
\* returns is that of the latest set_command before it in lock order
C3_Atomic ==
    /\ Cardinality(InCritical) <= 1
    /\ \A i, j \in Pops : (i # j /\ history[i].val # None) => history[i].val # history[j].val
    /\ \A j \in Pops :
           history[j].val # None =>
               \E i \in Sets : /\ i < j
                               /\ history[i].val = history[j].val
                               /\ \A k \in (i + 1)..(j - 1) : k \notin Sets

\* one request is in the middle of take() while another waits for the guard
C3_Witness ==
    \E r, q \in Requests :
        /\ rpc[r] = "pop_clear"
        /\ rgot[r] # None
        /\ rpc[q] = "pop_lock"

-----------------------------------------------------------------------------
(* Claims about sync_update                                                *)

\* the "files" array of the call in flight
Batch == su_payload.files[1]

\* the entry the loop is at has a path and a content
AtEntry ==
    /\ su_pc = "entry"
    /\ Batch[su_idx].path # None
    /\ Batch[su_idx].content # None

\* an entry before the one the loop is at has a path containing ..
AfterUnsafe ==
    \E k \in 1..(su_idx - 1) : Batch[k].path # None /\ Contains(Batch[k].path[1], "..")

\* the entry the loop is at has a path without .. whose parent can be created
SafeEntry ==
    /\ ~Contains(Batch[su_idx].path[1], "..")
    /\ \/ Parent(Batch[su_idx].path[1]) = None
       \/ CreateDirAllOk(Parent(Batch[su_idx].path[1])[1])

\* the step leaves the file of the entry the loop is at written
EntryWritten ==
    /\ Resolve(Batch[su_idx].path[1]) \in DOMAIN files'
    /\ files'[Resolve(Batch[su_idx].path[1])] = Text(Batch[su_idx].content[1])
    /\ Parent(Resolve(Batch[su_idx].path[1]))[1] \in dirs'

\* the loop goes on to the next entry, or past the last one
LoopGoesOn ==
    /\ su_idx' = su_idx + 1
    /\ su_pc' = IF su_idx < Len(Batch) THEN "entry" ELSE "regen"

\* C4 as the spec states it: an entry whose path contains .. creates no
\* directory and writes no file, the loop goes on, and a later entry with a
\* safe path and creatable parent is written
C4_Original ==
    [][AtEntry =>
          /\ LoopGoesOn
          /\ Contains(Batch[su_idx].path[1], "..") => (dirs' = dirs /\ files' = files)
          /\ (AfterUnsafe /\ SafeEntry) => EntryWritten]_vars

\* C4, amended: an entry whose path contains .. anywhere creates no directory
\* and writes no file, the loop goes on to every later entry, and a later
\* entry with a safe path and creatable parent is written unless its target
\* is a directory, in which case the write fails and no file changes
C4_Traversal ==
    [][AtEntry =>
          /\ LoopGoesOn
          /\ Contains(Batch[su_idx].path[1], "..") => (dirs' = dirs /\ files' = files)
          /\ (AfterUnsafe /\ SafeEntry) =>
                 IF IsDir(Resolve(Batch[su_idx].path[1]))
                     THEN files' = files
                 ELSE EntryWritten]_vars

\* an entry was skipped as unsafe and a later entry of the batch was imported
C4_Witness ==
    \E i, j \in DOMAIN log :
        /\ i < j
        /\ log[i].msg = "Skipping unsafe path"
        /\ log[j].msg = "Imported"

ManifestPath == Resolve("sourcemap.json")

Ack == Some([success |-> TRUE])

\* the call regenerated the sourcemap after the loop: the last record is
\* that of the manifest write, and a written manifest is the sourcemap
Regenerated ==
    /\ su_idx = Len(Batch) + 1
    /\ \/ /\ log[Len(log)].msg = "Generated sourcemap.json"
          /\ IsFile(ManifestPath)
          /\ files[ManifestPath] = Json(generate_sourcemap(Cwd))
       \/ /\ log[Len(log)].msg = "Failed to write sourcemap.json"
          /\ ~IsFile(ManifestPath)

-----------------------------------------------------------------------------
(* Claims about the sourcemap builder                                      *)

GamePath == Join(Cwd, "game")

\* the walk_directory calls of the last run that returned a node
Walked == {c \in walks : c.result # None}

\* the init-script paths of a walked directory, in priority order
InitPaths(d) ==
    <<Join(d, "init.server.luau"), Join(d, "init.client.luau"), Join(d, "init.luau")>>

InitClasses == <<"Script", "LocalScript", "ModuleScript">>

\* C6 as the spec states it: the root is named "Project" and classified
\* "Project", has no source files, and has no children when game/ is absent
C6_Original ==
    (fresh /\ stdout # None) =>
        /\ stdout[1]["name"] = "Project"
        /\ stdout[1]["className"] = "Project"
        /\ "filePaths" \notin DOMAIN stdout[1]
        /\ ~IsDir(GamePath) => "children" \notin DOMAIN stdout[1]

\* C6, amended: the root of every generated sourcemap is named "Project" and
\* classified "DataModel", has no source files, and has no children when
\* the game directory is absent
C6_RootNode ==
    (fresh /\ stdout # None) =>
        /\ stdout[1]["name"] = "Project"
        /\ stdout[1]["className"] = "DataModel"
        /\ "filePaths" \notin DOMAIN stdout[1]
        /\ ~IsDir(GamePath) => "children" \notin DOMAIN stdout[1]

\* a sourcemap was generated for a tree whose game path is not a directory
C6_Witness == fresh /\ stdout # None /\ IsFile(GamePath)

\* C7: in every walked directory the first existing of init.server.luau,
\* init.client.luau, init.luau is the node's sole source file; the class is
\* upgraded to Script / LocalScript / ModuleScript only when the class passed
\* in was "Folder", and any other class passed in is kept
C7_InitScript ==
    fresh => \A c \in Walked :
        LET node == c.result[1]
            init == InitPaths(c.dir_path)
        IN  /\ \A i \in 1..3 :
                   (Exists(init[i]) /\ \A j \in 1..(i - 1) : ~Exists(init[j])) =>
                       /\ node.file_paths = Some(<<init[i]>>)
                       /\ c.class_name = "Folder" => node.class_name = InitClasses[i]
            /\ c.class_name # "Folder" => node.class_name = c.class_name

\* a service directory holding two init scripts was walked
C7_Witness ==
    fresh /\ \E c \in Walked :
        /\ c.class_name \in Services
        /\ Cardinality({i \in 1..3 : Exists(InitPaths(c.dir_path)[i])}) >= 2

\* the regular files and the sub-directories of a directory
FilesIn(d) == {f \in Range(ReadDir(d)) : IsFile(Join(d, f))}
DirsIn(d) == {f \in Range(ReadDir(d)) : IsDir(Join(d, f))}

\* the files of a directory that yield a child node
ScriptFiles(d) == {f \in FilesIn(d) : ~StartsWith(f, "init.") /\ EndsWith(f, ".luau")}

\* the children of a node backed by the file at path p
ChildrenOf(node, p) ==
    {i \in DOMAIN node.children : node.children[i].file_paths = Some(<<p>>)}

\* C8: a regular file named init.* yields no child node; any other file
\* ending in .luau yields exactly one childless node with that file as its
\* single source path, named by the stem, of class Script for .server.luau,
\* LocalScript for .client.luau and ModuleScript otherwise; any other file
\* yields no node
C8_ChildFiles ==
    fresh => \A c \in Walked :
        LET node == c.result[1]
            d == c.dir_path
        IN  /\ Len(node.children) = Cardinality(DirsIn(d)) + Cardinality(ScriptFiles(d))
            /\ \A f \in FilesIn(d) \ ScriptFiles(d) : ChildrenOf(node, Join(d, f)) = {}
            /\ \A f \in ScriptFiles(d) :
                   /\ Cardinality(ChildrenOf(node, Join(d, f))) = 1
                   /\ \A i \in ChildrenOf(node, Join(d, f)) :
                          LET child == node.children[i]
                          IN  /\ child.children = <<>>
                              /\ IF EndsWith(f, ".server.luau")
                                     THEN /\ child.class_name = "Script"
                                          /\ child.name \o ".server.luau" = f
                                 ELSE IF EndsWith(f, ".client.luau")
                                     THEN /\ child.class_name = "LocalScript"
                                          /\ child.name \o ".client.luau" = f
                                 ELSE /\ child.class_name = "ModuleScript"
                                      /\ child.name \o ".luau" = f

\* a directory holding init.module.txt and a server script was walked
C8_Witness ==
    fresh /\ \E c \in Walked :
        /\ "init.module.txt" \in FilesIn(c.dir_path)
        /\ "a.server.luau" \in FilesIn(c.dir_path)

\* C9 as the spec states it: a node has source files exactly when it is a
\* leaf script node of a regular file or a folder that contains one of the
\* three init-script files, and a source-file list never names a directory
C9_SourceFiles ==
    (fresh /\ stdout # None) =>
        /\ "filePaths" \notin DOMAIN stdout[1]
        /\ \A c \in Walked :
               LET node == c.result[1]
               IN  /\ node.file_paths # None <=>
                          \E i \in 1..3 : IsFile(InitPaths(c.dir_path)[i])
                   /\ node.file_paths # None => \A p \in Range(node.file_paths[1]) : IsFile(p)
                   /\ \A i \in DOMAIN node.children :
                          node.children[i].file_paths # None =>
                              \A p \in Range(node.children[i].file_paths[1]) : IsFile(p)

\* the directories strictly below a top-level directory of game/
NestedDirs ==
    {d \in dirs : /\ StartsWith(d, Join(GamePath, ""))
                  /\ Parent(d) # Some(GamePath)}

\* C10: a nested directory is walked with class StarterPlayerScripts (resp.
\* StarterCharacterScripts) exactly when that is its name and its parent's
\* name is StarterPlayer; every other nested directory, at any depth and
\* whatever its name, is walked with class "Folder"
C10_NestedClass ==
    fresh =>
        /\ \A d \in NestedDirs : \E c \in walks : c.dir_path = d
        /\ \A c \in walks :
               Parent(c.dir_path) # Some(GamePath) =>
                   LET parent_name == FileName(Parent(c.dir_path)[1])
                       special == {"StarterPlayerScripts", "StarterCharacterScripts"}
                   IN  /\ c.class_name \in special \cup {"Folder"}
                       /\ \A s \in special :
                              c.class_name = s <=>
                                  (c.name = s /\ parent_name = "StarterPlayer")

\* a nested StarterPlayer directory, walked as a Folder, whose
\* StarterCharacterScripts child was walked with the special class
C10_Witness ==
    fresh /\ \E c, k \in walks :
        /\ Parent(c.dir_path) # Some(GamePath)
        /\ c.name = "StarterPlayer" /\ c.class_name = "Folder"
        /\ Parent(k.dir_path) = Some(c.dir_path)
        /\ k.class_name = "StarterCharacterScripts"

=============================================================================
